---- MODULE Spec2Model ----
(***************************************************************************)
(* Model of services/listen_dnsport.c: the construction of the list of     *)
(* listening ports from the configuration (listening_ports_open), the      *)
(* listener aggregate built over it (listen_create, listen_pushback,       *)
(* listen_resume, listen_delete) and the release of the port list          *)
(* (listening_ports_free).                                                 *)
(*                                                                         *)
(* A socket is identified by its index in socks; the table keeps every     *)
(* socket that was ever created, together with the number of close() calls *)
(* made on it, so that leaks and double closes are visible in the state.   *)
(* The system calls and allocations that can fail are failed by the        *)
(* environment: each operation takes the place of the failure as input.    *)
(***************************************************************************)
EXTENDS Integers, Sequences, FiniteSets, TLC

VARIABLES cfg, build, pc, socks, list, port_nodes, open_ret, open_inj,
          front, front_ret, cpts, ll_nodes, bufs_live, fronts_live,
          create_inj, lastOp, prevOp, sockcall

vars == <<cfg, build, pc, socks, list, port_nodes, open_ret, open_inj,
          front, front_ret, cpts, ll_nodes, bufs_live, fronts_live,
          create_inj, lastOp, prevOp, sockcall>>

(* ------------------------------ bounds --------------------------------- *)

\* longest configured interface list (cfg->num_ifs)
MaxIfs == 2

\* interface strings a configuration can name
IfNames == {"192.0.2.1", "2001:db8::1"}

\* configured listening ports (cfg->port)
Ports == {5353}

\* values of cfg->incoming_num_tcp
TcpDepths == {0, 5}

(* --------------------------- program constants ------------------------- *)

TCP_BACKLOG == 5

\* ports_create_if always passes v6only = 1 to make_sock
V6ONLY_ARG == 1

RECURSIVE SeqsUpTo(_, _)
SeqsUpTo(S, n) ==
    IF n = 0 THEN {<<>>}
    ELSE LET shorter == SeqsUpTo(S, n - 1)
         IN  shorter \cup {Append(q, x) : q \in {r \in shorter : Len(r) = n - 1}, x \in S}

Configs ==
    [port : Ports, do_ip4 : BOOLEAN, do_ip6 : BOOLEAN, do_udp : BOOLEAN,
     do_tcp : BOOLEAN, if_automatic : BOOLEAN, incoming_num_tcp : TcpDepths,
     ifs : SeqsUpTo(IfNames, MaxIfs)]

\* the preprocessor symbols the file depends on; IPV6_V6ONLY, SO_REUSEADDR and
\* a packet-info option are taken as defined
Builds == [INET6 : BOOLEAN, IPV6_USE_MIN_MTU : BOOLEAN]

(* ------------------------------ sockets -------------------------------- *)

NewSock(family, stype) ==
    [family |-> family, stype |-> stype, open |-> TRUE, closes |-> 0,
     closedBy |-> "none", v6only |-> "default", minmtu |-> FALSE,
     reuseaddr |-> FALSE, addr |-> "none", port |-> 0, nonblock |-> FALSE,
     backlog |-> 0, pktinfo |-> FALSE, listed |-> FALSE, returned |-> FALSE]

\* (listed records that a port descriptor was made for the socket, returned
\* that the function that made the socket returned it as a valid handle)

\* close(2) on socket s, called from function who
close(sk, s, who) ==
    [sk EXCEPT ![s].open = FALSE, ![s].closes = @ + 1, ![s].closedBy = who]

\* util/net_help.c str_is_ip6: the string holds a ':'
str_is_ip6(str) == str \in {"2001:db8::1", "::0", "::1"}

\* the result of a socket-creating function: the handle (-1 on error), the
\* socket table afterwards, and whether the injected failure took place
SockRes(s, sk, hit) == [s |-> s, socks |-> sk, hit |-> hit]

create_udp_sock_mut(sk, addr, v6only, f) ==
    IF f = "socket" THEN SockRes(-1, sk, TRUE)
    ELSE
    LET s   == Len(sk) + 1
        s0  == Append(sk, NewSock(addr.ai_family, addr.ai_socktype))
        do6 == addr.ai_family = "AF_INET6" /\ v6only # 0
        s1  == IF do6
               THEN [s0 EXCEPT ![s].v6only = IF v6only = 2 THEN "off" ELSE "on"]
               ELSE s0
        doM == addr.ai_family = "AF_INET6" /\ build.IPV6_USE_MIN_MTU
        s2  == IF doM THEN [s1 EXCEPT ![s].minmtu = TRUE] ELSE s1
        s3  == [s2 EXCEPT ![s].addr = addr.host, ![s].port = addr.port]
        s4  == [s3 EXCEPT ![s].nonblock = TRUE, ![s].returned = TRUE]
    IN  IF do6 /\ f = "v6only" THEN SockRes(-1, s0, TRUE)
        ELSE IF doM /\ f = "minmtu" THEN SockRes(-1, s1, TRUE)
        ELSE IF f = "bind" THEN SockRes(-1, s2, TRUE)
        ELSE IF f = "nonblock" THEN SockRes(s, [s3 EXCEPT ![s].returned = TRUE], TRUE)
        ELSE SockRes(s, s4, FALSE)

create_udp_sock(sk, addr, v6only, f) ==
    IF f = "socket" THEN SockRes(-1, sk, TRUE)
    ELSE
    LET s   == Len(sk) + 1
        s0  == Append(sk, NewSock(addr.ai_family, addr.ai_socktype))
        do6 == addr.ai_family = "AF_INET6" /\ v6only # 0
        s1  == IF do6
               THEN [s0 EXCEPT ![s].v6only = IF v6only = 2 THEN "off" ELSE "on"]
               ELSE s0
        doM == addr.ai_family = "AF_INET6" /\ build.IPV6_USE_MIN_MTU
        s2  == IF doM THEN [s1 EXCEPT ![s].minmtu = TRUE] ELSE s1
        s3  == [s2 EXCEPT ![s].addr = addr.host, ![s].port = addr.port]
        s4  == [s3 EXCEPT ![s].nonblock = TRUE, ![s].returned = TRUE]
    IN  IF do6 /\ f = "v6only" THEN SockRes(-1, s0, TRUE)
        ELSE IF doM /\ f = "minmtu" THEN SockRes(-1, s1, TRUE)
        ELSE IF f = "bind" THEN SockRes(-1, s2, TRUE)
        ELSE IF f = "nonblock" THEN SockRes(-1, s3, TRUE)
        ELSE SockRes(s, s4, FALSE)

create_tcp_accept_sock_mut(sk, addr, v6only, f) ==
    IF f = "socket" THEN SockRes(-1, sk, TRUE)
    ELSE
    LET s   == Len(sk) + 1
        s0  == Append(sk, NewSock(addr.ai_family, addr.ai_socktype))
        s1  == [s0 EXCEPT ![s].reuseaddr = TRUE]
        do6 == addr.ai_family = "AF_INET6"
        s2  == IF do6 THEN [s1 EXCEPT ![s].v6only = "on"] ELSE s1
        s3  == [s2 EXCEPT ![s].addr = addr.host, ![s].port = addr.port]
        s4  == [s3 EXCEPT ![s].nonblock = TRUE]
        s5  == [s4 EXCEPT ![s].backlog = TCP_BACKLOG, ![s].returned = TRUE]
    IN  IF f = "reuseaddr" THEN SockRes(-1, s0, TRUE)
        ELSE IF do6 /\ f = "v6only" THEN SockRes(-1, s1, TRUE)
        ELSE IF f = "bind" THEN SockRes(-1, s2, TRUE)
        ELSE IF f = "nonblock" THEN SockRes(-1, s3, TRUE)
        ELSE IF f = "listen" THEN SockRes(-1, s4, TRUE)
        ELSE SockRes(s, s5, FALSE)

create_tcp_accept_sock(sk, addr, v6only, f) ==
    IF f = "socket" THEN SockRes(-1, sk, TRUE)
    ELSE
    LET s   == Len(sk) + 1
        s0  == Append(sk, NewSock(addr.ai_family, addr.ai_socktype))
        s1  == [s0 EXCEPT ![s].reuseaddr = TRUE]
        do6 == addr.ai_family = "AF_INET6" /\ v6only # 0
        s2  == IF do6 THEN [s1 EXCEPT ![s].v6only = "on"] ELSE s1
        s3  == [s2 EXCEPT ![s].addr = addr.host, ![s].port = addr.port]
        s4  == [s3 EXCEPT ![s].nonblock = TRUE]
        s5  == [s4 EXCEPT ![s].backlog = TCP_BACKLOG, ![s].returned = TRUE]
    IN  IF f = "reuseaddr" THEN SockRes(-1, s0, TRUE)
        ELSE IF do6 /\ f = "v6only" THEN SockRes(-1, s1, TRUE)
        ELSE IF f = "bind" THEN SockRes(-1, s2, TRUE)
        ELSE IF f = "nonblock" THEN SockRes(-1, s3, TRUE)
        ELSE IF f = "listen" THEN SockRes(-1, s4, TRUE)
        ELSE SockRes(s, s5, FALSE)

make_sock(sk, stype, ifname, port, family, v6only, f) ==
    IF f = "getaddrinfo" THEN SockRes(-1, sk, TRUE)
    ELSE LET res == [ai_family |-> family, ai_socktype |-> stype,
                     host |-> ifname, port |-> port]
         IN  IF stype = "SOCK_DGRAM"
             THEN create_udp_sock(sk, res, v6only, f)
             ELSE create_tcp_accept_sock(sk, res, v6only, f)

\* st is the memory a call works on: the socket table, the port list (head
\* first), the number of live listen_port nodes, the number of
\* ports_create_if calls made so far and whether the injected failure took
\* place
port_insert(st, s, ftype, f) ==
    IF f = "malloc"
    THEN [ok |-> FALSE, st |-> [st EXCEPT !.hit = TRUE]]
    ELSE [ok |-> TRUE,
          st |-> [st EXCEPT !.list = <<[fd |-> s, ftype |-> ftype]>> \o @,
                            !.nodes = @ + 1,
                            !.socks[s].listed = TRUE]]

set_recvpktinfo_mut(sk, s, family, f) ==
    IF family = "AF_INET6"
    THEN IF f = "pktinfo" THEN [ok |-> FALSE, socks |-> sk, hit |-> TRUE]
         ELSE [ok |-> TRUE, socks |-> [sk EXCEPT ![s].pktinfo = TRUE], hit |-> FALSE]
    ELSE [ok |-> TRUE, socks |-> sk, hit |-> FALSE]

set_recvpktinfo(sk, s, family, f) ==
    IF family \in {"AF_INET6", "AF_INET"}
    THEN IF f = "pktinfo" THEN [ok |-> FALSE, socks |-> sk, hit |-> TRUE]
         ELSE [ok |-> TRUE, socks |-> [sk EXCEPT ![s].pktinfo = TRUE], hit |-> FALSE]
    ELSE [ok |-> TRUE, socks |-> sk, hit |-> FALSE]

NoFail == [call |-> 0, which |-> "none", step |-> "none"]

\* the step of the socket of kind which that fails in this call, if any
StepFor(fl, which) == IF fl.which = which THEN fl.step ELSE "none"

PciRes(ok, st) == [ok |-> ok, st |-> st]

\* the memory after make_sock returned m
pci_sock(st, m) == [st EXCEPT !.socks = m.socks, !.hit = @ \/ m.hit]

\* lines 319-322, 327-330, 336-339: a socket whose insertion failed is closed
pci_inserted(ins, s) ==
    IF ~ins.ok
    THEN PciRes(FALSE, [ins.st EXCEPT !.socks = close(@, s, "ports_create_if")])
    ELSE PciRes(TRUE, ins.st)

\* lines 325-330 and 333-339: make_sock returned m for a port of kind ftype
pci_made(st, m, ftype, f) ==
    IF m.s = -1 THEN PciRes(FALSE, pci_sock(st, m))
    ELSE pci_inserted(port_insert(pci_sock(st, m), m.s, ftype, f), m.s)

pci_ancil_info_mut(st, s, r, f) ==
    pci_inserted(port_insert([st EXCEPT !.socks = r.socks], s,
                             "listen_type_udpancil",
                             IF r.ok THEN f ELSE "none"), s)

\* lines 317-322: set_recvpktinfo returned r for socket s
pci_ancil_info(st, s, r, f) ==
    IF ~r.ok THEN PciRes(FALSE, [st EXCEPT !.socks = r.socks, !.hit = @ \/ r.hit])
    ELSE pci_inserted(port_insert([st EXCEPT !.socks = r.socks], s,
                                  "listen_type_udpancil", f), s)

\* lines 315-322: make_sock returned m for the ancillary socket
pci_ancil_made(st, m, family, f) ==
    IF m.s = -1 THEN PciRes(FALSE, pci_sock(st, m))
    ELSE pci_ancil_info(pci_sock(st, m), m.s,
                        set_recvpktinfo(m.socks, m.s, family, f), f)

\* the TCP half of ports_create_if
pci_tcp(ifname, do_tcp, family, port, st, fl) ==
    IF do_tcp
    THEN pci_made(st,
                  make_sock(st.socks, "SOCK_STREAM", ifname, port, family,
                            V6ONLY_ARG, StepFor(fl, "tcp")),
                  "listen_type_tcp", StepFor(fl, "tcp"))
    ELSE PciRes(TRUE, st)

\* the TCP half, entered when the UDP half (result r) did not return
pci_then_tcp(r, ifname, do_tcp, family, port, fl) ==
    IF ~r.ok THEN r ELSE pci_tcp(ifname, do_tcp, family, port, r.st, fl)

ports_create_if_mut(ifname, do_auto, do_udp, do_tcp, family, port, st, fl) ==
    IF ~do_udp /\ ~do_tcp THEN PciRes(TRUE, st)
    ELSE IF do_auto
    THEN pci_then_tcp(
             pci_ancil_made(st,
                 make_sock(st.socks, "SOCK_DGRAM", ifname, port, family,
                           V6ONLY_ARG, StepFor(fl, "udp")),
                 family, StepFor(fl, "udp")),
             ifname, do_tcp, family, port, fl)
    ELSE IF do_udp
    THEN pci_then_tcp(
             pci_made(st,
                 make_sock(st.socks, "SOCK_DGRAM", ifname, port, family,
                           V6ONLY_ARG, StepFor(fl, "udp")),
                 "listen_type_udp", StepFor(fl, "udp")),
             ifname, do_tcp, family, port, fl)
    ELSE pci_tcp(ifname, do_tcp, family, port, st, fl)

ports_create_if(ifname, do_auto, do_udp, do_tcp, family, port, st, fl) ==
    IF ~do_udp /\ ~do_tcp THEN PciRes(FALSE, st)
    ELSE IF do_auto
    THEN pci_then_tcp(
             pci_ancil_made(st,
                 make_sock(st.socks, "SOCK_DGRAM", ifname, port, family,
                           V6ONLY_ARG, StepFor(fl, "udp")),
                 family, StepFor(fl, "udp")),
             ifname, do_tcp, family, port, fl)
    ELSE IF do_udp
    THEN pci_then_tcp(
             pci_made(st,
                 make_sock(st.socks, "SOCK_DGRAM", ifname, port, family,
                           V6ONLY_ARG, StepFor(fl, "udp")),
                 "listen_type_udp", StepFor(fl, "udp")),
             ifname, do_tcp, family, port, fl)
    ELSE pci_tcp(ifname, do_tcp, family, port, st, fl)

free_loop_mut(l, sk, who) == sk

RECURSIVE free_loop(_, _, _)
free_loop(l, sk, who) ==
    IF l = <<>> THEN sk
    ELSE free_loop(Tail(l),
                   IF Head(l).fd # -1 THEN close(sk, Head(l).fd, who) ELSE sk,
                   who)

\* listening_ports_free on the list of st: every descriptor's socket is
\* closed and every node freed
listening_ports_free(st) ==
    [st EXCEPT !.socks = free_loop(st.list, st.socks, "listening_ports_free"),
               !.nodes = @ - Len(st.list),
               !.list = <<>>]

\* one call of ports_create_if from listening_ports_open; the injected
\* failure applies to the call whose number is fl.call
call_if(ifname, do_auto, do_udp, do_tcp, family, port, st, fl) ==
    ports_create_if(ifname, do_auto, do_udp, do_tcp, family, port,
                    [st EXCEPT !.ncalls = @ + 1],
                    IF fl.call = st.ncalls + 1 THEN fl ELSE NoFail)

OpenRes(ret, st) == [ret |-> ret, st |-> st]

\* lines 497-498, 506-507, 517-518, 526-527: a failed ports_create_if frees
\* the list and returns NULL
open_failed(r) == OpenRes("fail", listening_ports_free(r.st))

RECURSIVE ifs_loop(_, _, _, _, _, _, _)

\* the for loop after the ports_create_if call of entry i returned r
ifs_next(c, i, do_ip4, do_ip6, do_tcp, r, fl) ==
    IF ~r.ok THEN open_failed(r)
    ELSE ifs_loop(c, i + 1, do_ip4, do_ip6, do_tcp, r.st, fl)

\* the for loop over cfg->ifs of listening_ports_open, at entry i
ifs_loop(c, i, do_ip4, do_ip6, do_tcp, st, fl) ==
    IF i > Len(c.ifs) THEN OpenRes("ok", st)
    ELSE IF str_is_ip6(c.ifs[i])
    THEN IF ~do_ip6 THEN ifs_loop(c, i + 1, do_ip4, do_ip6, do_tcp, st, fl)
         ELSE ifs_next(c, i, do_ip4, do_ip6, do_tcp,
                       call_if(c.ifs[i], FALSE, c.do_udp, do_tcp, "AF_INET6",
                               c.port, st, fl), fl)
    ELSE IF ~do_ip4 THEN ifs_loop(c, i + 1, do_ip4, do_ip6, do_tcp, st, fl)
         ELSE ifs_next(c, i, do_ip4, do_ip6, do_tcp,
                       call_if(c.ifs[i], FALSE, c.do_udp, do_tcp, "AF_INET",
                               c.port, st, fl), fl)

\* lines 503-508: the IPv4 call of the default branch returned r
open_ip4_done(r) == IF ~r.ok THEN open_failed(r) ELSE OpenRes("ok", r.st)

open_default_ip4_mut(c, do_ip4, do_tcp, do_auto, st, fl) ==
    IF do_ip4
    THEN open_ip4_done(call_if("0.0.0.0", do_auto, c.do_udp, do_tcp,
                               "AF_INET", c.port, st, fl))
    ELSE OpenRes("ok", st)

\* the IPv4 half of the default branch of listening_ports_open
open_default_ip4(c, do_ip4, do_tcp, do_auto, st, fl) ==
    IF do_ip4
    THEN open_ip4_done(call_if(IF do_auto THEN "0.0.0.0" ELSE "127.0.0.1",
                               do_auto, c.do_udp, do_tcp, "AF_INET", c.port,
                               st, fl))
    ELSE OpenRes("ok", st)

\* lines 494-509: the IPv6 call of the default branch returned r
open_ip6_done(c, do_ip4, do_tcp, do_auto, r, fl) ==
    IF ~r.ok THEN open_failed(r)
    ELSE open_default_ip4(c, do_ip4, do_tcp, do_auto, r.st, fl)

\* the flags listening_ports_open derives from the configuration
eff_ip4_mut(c) == TRUE

eff_ip4(c) == c.do_ip4
eff_ip6(c) == IF build.INET6 THEN c.do_ip6 ELSE FALSE
eff_tcp_mut(c) == c.do_tcp

eff_tcp(c) == IF c.incoming_num_tcp = 0 THEN FALSE ELSE c.do_tcp
eff_auto_mut(c) == c.if_automatic /\ c.do_udp

eff_auto(c) ==
    IF (c.if_automatic /\ c.do_udp) /\ (~eff_ip4(c) \/ ~eff_ip6(c)) THEN FALSE
    ELSE c.if_automatic /\ c.do_udp

open_branches_mut(c, do_ip4, do_ip6, do_tcp, do_auto, st, fl) ==
    IF Len(c.ifs) = 0
    THEN IF do_ip6
         THEN open_ip6_done(c, do_ip4, do_tcp, do_auto,
                            call_if(IF do_auto THEN "::0" ELSE "::1",
                                    do_auto, c.do_udp, do_tcp, "AF_INET6",
                                    c.port, st, fl), fl)
         ELSE open_default_ip4(c, do_ip4, do_tcp, do_auto, st, fl)
    ELSE ifs_loop(c, 1, do_ip4, do_ip6, do_tcp, st, fl)

\* lines 491-530 with the derived flags
open_branches(c, do_ip4, do_ip6, do_tcp, do_auto, st, fl) ==
    IF do_auto \/ Len(c.ifs) = 0
    THEN IF do_ip6
         THEN open_ip6_done(c, do_ip4, do_tcp, do_auto,
                            call_if(IF do_auto THEN "::0" ELSE "::1",
                                    do_auto, c.do_udp, do_tcp, "AF_INET6",
                                    c.port, st, fl), fl)
         ELSE open_default_ip4(c, do_ip4, do_tcp, do_auto, st, fl)
    ELSE ifs_loop(c, 1, do_ip4, do_ip6, do_tcp, st, fl)

\* listening_ports_open as a function of the configuration, the memory at
\* entry and the injected failure: the return path ("guard" for the return
\* of line 484, "fail" for the paths that free the list, "ok" for the final
\* return) and the memory at return
open_ports(c, st, fl) ==
    IF ~eff_ip4(c) /\ ~eff_ip6(c) THEN OpenRes("guard", st)
    ELSE open_branches(c, eff_ip4(c), eff_ip6(c), eff_tcp(c), eff_auto(c), st, fl)

(* --------------------------- failure places ---------------------------- *)

MaxCalls == IF MaxIfs > 2 THEN MaxIfs ELSE 2

OpenFailSteps ==
    {"getaddrinfo", "socket", "reuseaddr", "v6only", "minmtu", "bind",
     "nonblock", "listen", "pktinfo", "malloc"}

OpenFails ==
    {NoFail} \cup [call : 1..MaxCalls, which : {"udp", "tcp"}, step : OpenFailSteps]

(* ------------------------- listener aggregate -------------------------- *)

\* size of the shared receive buffer handed to listen_create
BUFSIZE == 65552

\* enum comm_point_type values a comm point made for a udpancil port can
\* carry (util/netevent.c is outside this file)
AncilTypes == {"comm_udp", "comm_raw"}

\* util/netevent.c: the comm points the aggregate asks for; a new comm point
\* is registered with the event base and closes its socket when deleted
NewCp(kind, type, fd, buffer, max_tcp) ==
    [kind |-> kind, type |-> type, fd |-> fd, buffer |-> buffer,
     max_tcp |-> max_tcp, do_not_close |-> FALSE, listening |-> TRUE,
     deleted |-> 0]

comm_point_create_udp(fd, buffer) == NewCp("udp", "comm_udp", fd, buffer, 0)

comm_point_create_tcp(fd, num, bufsize) ==
    NewCp("tcp_accept", "comm_tcp_accept", fd, 0, num)

comm_point_create_udp_ancil(fd, buffer, atype) ==
    NewCp("udp_ancil", atype, fd, buffer, 0)

\* m is the memory of the aggregate: the comm points ever made, the
\* collection front->cps (comm point indices, head first), the shared buffer
\* front->udp_buff, the live listen_list nodes, buffers and aggregates, and
\* the socket table
comm_point_delete(m, c) ==
    [m EXCEPT !.cpts[c].deleted = @ + 1,
              !.cpts[c].listening = FALSE,
              !.socks = IF m.cpts[c].fd # -1 /\ ~m.cpts[c].do_not_close
                        THEN close(@, m.cpts[c].fd, "comm_point_delete")
                        ELSE @]

comm_point_stop_listening(m, c) == [m EXCEPT !.cpts[c].listening = FALSE]

comm_point_start_listening(m, c) == [m EXCEPT !.cpts[c].listening = TRUE]

RECURSIVE delete_loop(_, _)
delete_loop(m, p) ==
    IF p = <<>> THEN m
    ELSE delete_loop([comm_point_delete(m, Head(p)) EXCEPT !.ll = @ - 1], Tail(p))

\* listen_delete on a non-null aggregate
listen_delete(m) ==
    [delete_loop(m, m.cps) EXCEPT !.cps = <<>>, !.udp_buff = 0,
                                  !.bufs = @ - 1, !.fronts = @ - 1]

listen_cp_insert(m, c, f) ==
    IF f = "insert" THEN [ok |-> FALSE, m |-> m]
    ELSE [ok |-> TRUE, m |-> [m EXCEPT !.cps = <<c>> \o @, !.ll = @ + 1]]

mark_do_not_close_mut(cp) == cp

\* line 396: the comm point is told not to close its socket
mark_do_not_close(cp) == [cp EXCEPT !.do_not_close = TRUE]

CreateRes(ret, m, hit) == [ret |-> ret, m |-> m, hit |-> hit]

NoCreateFail == [k |-> 0, step |-> "none"]

create_finish_mut(m) == CreateRes("front", m, FALSE)

\* lines 405-411: an aggregate without comm points is not returned
create_finish(m) ==
    IF m.cps = <<>> THEN CreateRes("NULL", listen_delete(m), FALSE)
    ELSE CreateRes("front", m, FALSE)

cp_for_mut(p, m, a) ==
    IF p.ftype = "listen_type_tcp"
    THEN comm_point_create_tcp(p.fd, a.tcp_accept_count, a.bufsize)
    ELSE comm_point_create_udp(p.fd, m.udp_buff)

\* lines 382-390: the comm point made for port descriptor p
cp_for(p, m, a) ==
    IF p.ftype = "listen_type_udp"
    THEN comm_point_create_udp(p.fd, m.udp_buff)
    ELSE IF p.ftype = "listen_type_tcp"
    THEN comm_point_create_tcp(p.fd, a.tcp_accept_count, a.bufsize)
    ELSE comm_point_create_udp_ancil(p.fd, m.udp_buff, a.atype)

RECURSIVE create_loop(_, _, _, _)

create_linked_mut(ports, k, ins, c, a) ==
    IF ~ins.ok
    THEN CreateRes("NULL", listen_delete(ins.m), TRUE)
    ELSE create_loop(ports, k + 1, ins.m, a)

\* lines 397-403: listen_cp_insert returned ins for comm point c
create_linked(ports, k, ins, c, a) ==
    IF ~ins.ok
    THEN CreateRes("NULL", listen_delete(comm_point_delete(ins.m, c)), TRUE)
    ELSE create_loop(ports, k + 1, ins.m, a)

\* the while loop of listen_create over the port list, at descriptor k; fk
\* is the step failed at this descriptor
create_step(ports, k, m, a, fk) ==
    IF ~(ports[k].ftype \in {"listen_type_udp", "listen_type_tcp",
                             "listen_type_udpancil"} /\ fk # "cp")
    THEN CreateRes("NULL", listen_delete(m), TRUE)
    ELSE create_linked(ports, k,
             listen_cp_insert(
                 [m EXCEPT !.cpts = Append(@, mark_do_not_close(cp_for(ports[k], m, a)))],
                 Len(m.cpts) + 1, fk),
             Len(m.cpts) + 1, a)

create_loop(ports, k, m, a) ==
    IF k > Len(ports) THEN create_finish(m)
    ELSE create_step(ports, k, m, a, IF a.f.k = k THEN a.f.step ELSE "none")

\* listen_create as a function of the port list, the memory at entry and
\* its inputs a (buffer size, accept count, the failure place, the type of
\* an ancillary comm point)
listen_create(ports, m, a) ==
    IF a.f.step = "front" THEN CreateRes("NULL", m, TRUE)
    ELSE IF a.f.step = "buffer" THEN CreateRes("NULL", m, TRUE)
    ELSE create_loop(ports, 1,
                     [m EXCEPT !.cps = <<>>, !.fronts = @ + 1,
                               !.bufs = @ + 1, !.udp_buff = m.bufs + 1], a)

RECURSIVE pushback_loop(_, _)
pushback_loop(m, p) ==
    IF p = <<>> THEN m
    ELSE IF m.cpts[Head(p)].type # "comm_udp" /\ m.cpts[Head(p)].type # "comm_tcp_accept"
    THEN pushback_loop(m, Tail(p))
    ELSE pushback_loop(comm_point_stop_listening(m, Head(p)), Tail(p))

listen_pushback_mut(m) == delete_loop(m, m.cps)

listen_pushback(m) == pushback_loop(m, m.cps)

RECURSIVE resume_loop(_, _)
resume_loop(m, p) ==
    IF p = <<>> THEN m
    ELSE IF m.cpts[Head(p)].type # "comm_udp" /\ m.cpts[Head(p)].type # "comm_tcp_accept"
    THEN resume_loop(m, Tail(p))
    ELSE resume_loop(comm_point_start_listening(m, Head(p)), Tail(p))

listen_resume_mut(m) ==
    IF m.cps = <<>> THEN m ELSE resume_loop(m, <<Head(m.cps)>>)

listen_resume(m) == resume_loop(m, m.cps)

MaxPorts == 2 * MaxCalls

CreateFails ==
    {NoCreateFail, [k |-> 0, step |-> "front"], [k |-> 0, step |-> "buffer"]}
    \cup [k : 1..MaxPorts, step : {"cp", "insert"}]

\* the aggregate's memory in the current state
Mem == [cpts |-> cpts, cps |-> front.cps, udp_buff |-> front.udp_buff,
        ll |-> ll_nodes, bufs |-> bufs_live, fronts |-> fronts_live,
        socks |-> socks]

SetMem(m) ==
    /\ cpts' = m.cpts
    /\ front' = [cps |-> m.cps, udp_buff |-> m.udp_buff]
    /\ ll_nodes' = m.ll
    /\ bufs_live' = m.bufs
    /\ fronts_live' = m.fronts
    /\ socks' = m.socks

(* ------------------------------ actions -------------------------------- *)

NoFront == [cps |-> <<>>, udp_buff |-> 0]

\* no direct call of the socket functions is made
NoDirect == [family |-> "AF_INET", host |-> "127.0.0.1", v6only |-> 1,
             rets |-> <<>>]

Init ==
    /\ cfg \in Configs
    /\ build \in Builds
    /\ pc = "start"
    /\ socks = <<>>
    /\ list = <<>>
    /\ port_nodes = 0
    /\ open_ret = "none"
    /\ open_inj = NoFail
    /\ front = NoFront
    /\ front_ret = "none"
    /\ cpts = <<>>
    /\ ll_nodes = 0
    /\ bufs_live = 0
    /\ fronts_live = 0
    /\ create_inj = "none"
    /\ lastOp = "none"
    /\ prevOp = "none"
    /\ sockcall = NoDirect

\* the state when listening_ports_open returns r
OpenReturn(r, fl) ==
    /\ socks' = r.st.socks
    /\ list' = r.st.list
    /\ port_nodes' = r.st.nodes
    /\ open_ret' = r.ret
    /\ open_inj' = IF r.st.hit THEN fl ELSE NoFail

listening_ports_open ==
    /\ pc = "start"
    /\ \E fl \in OpenFails :
         OpenReturn(open_ports(cfg, [socks |-> socks, list |-> list,
                                     nodes |-> port_nodes, ncalls |-> 0,
                                     hit |-> FALSE], fl), fl)
    /\ pc' = "opened"
    /\ UNCHANGED <<cfg, build, sockcall, front, front_ret, cpts, ll_nodes, bufs_live,
                   fronts_live, create_inj, lastOp, prevOp>>

\* the state when listen_create returns r
CreateReturn(r, f) ==
    /\ SetMem(r.m)
    /\ front_ret' = r.ret
    /\ create_inj' = IF r.hit THEN f.step ELSE "none"

\* the caller hands the port list to listen_create; the accept count is the
\* configured incoming_num_tcp
ListenCreate ==
    /\ pc = "opened"
    /\ \E f \in CreateFails, atype \in AncilTypes :
         CreateReturn(listen_create(list, Mem,
                                    [bufsize |-> BUFSIZE,
                                     tcp_accept_count |-> cfg.incoming_num_tcp,
                                     f |-> f, atype |-> atype]), f)
    /\ pc' = "created"
    /\ UNCHANGED <<cfg, build, sockcall, list, port_nodes, open_ret, open_inj, lastOp,
                   prevOp>>

ListenPushback ==
    /\ pc = "created"
    /\ front_ret = "front"
    /\ SetMem(listen_pushback(Mem))
    /\ lastOp' = "pushback"
    /\ prevOp' = lastOp
    /\ UNCHANGED <<cfg, build, sockcall, pc, list, port_nodes, open_ret, open_inj,
                   front_ret, create_inj>>

ListenResume ==
    /\ pc = "created"
    /\ front_ret = "front"
    /\ SetMem(listen_resume(Mem))
    /\ lastOp' = "resume"
    /\ prevOp' = lastOp
    /\ UNCHANGED <<cfg, build, sockcall, pc, list, port_nodes, open_ret, open_inj,
                   front_ret, create_inj>>

\* listen_delete(front); a null front is left alone
ListenDelete ==
    /\ pc = "created"
    /\ IF front_ret = "front" THEN SetMem(listen_delete(Mem))
       ELSE UNCHANGED <<cpts, front, ll_nodes, bufs_live, fronts_live, socks>>
    /\ front_ret' = "deleted"
    /\ pc' = "deleted"
    /\ UNCHANGED <<cfg, build, sockcall, list, port_nodes, open_ret, open_inj,
                   create_inj, lastOp, prevOp>>

ListeningPortsFree ==
    /\ pc = "deleted"
    /\ socks' = free_loop(list, socks, "listening_ports_free")
    /\ port_nodes' = port_nodes - Len(list)
    /\ list' = <<>>
    /\ pc' = "freed"
    /\ UNCHANGED <<cfg, build, sockcall, open_ret, open_inj, front, front_ret, cpts,
                   ll_nodes, bufs_live, fronts_live, create_inj, lastOp, prevOp>>

Next ==
    \/ listening_ports_open
    \/ ListenCreate
    \/ ListenPushback
    \/ ListenResume
    \/ ListenDelete
    \/ ListeningPortsFree

Spec == Init /\ [][Next]_vars

(* --------- the socket functions called on their own, any v6only -------- *)

\* number of direct calls in one run
MaxDirect == 2

\* the v6only argument: 0 leaves the option, 1 sets it, 2 (create_udp_sock)
\* clears it
V6Modes == {0, 1, 2}

DirectInputs ==
    {d \in [family : {"AF_INET", "AF_INET6"},
            host : {"::0", "::1", "0.0.0.0", "127.0.0.1"} \cup IfNames,
            v6only : V6Modes, rets : {<<>>}] :
        d.family = (IF str_is_ip6(d.host) THEN "AF_INET6" ELSE "AF_INET")}

\* the configuration plays no part in a direct call but for the port
DirectCfgs ==
    {c \in Configs : /\ ~c.do_ip4 /\ ~c.do_ip6 /\ ~c.do_udp /\ ~c.do_tcp
                     /\ ~c.if_automatic /\ c.incoming_num_tcp = 0
                     /\ c.ifs = <<>>}

\* the struct addrinfo handed to a direct call
DirectAddr(stype) ==
    [ai_family |-> sockcall.family, ai_socktype |-> stype,
     host |-> sockcall.host, port |-> cfg.port]

UdpFailSteps == {"none", "socket", "v6only", "minmtu", "bind", "nonblock"}

TcpFailSteps ==
    {"none", "socket", "reuseaddr", "v6only", "bind", "nonblock", "listen"}

SockInit ==
    /\ cfg \in DirectCfgs
    /\ build \in Builds
    /\ sockcall \in DirectInputs
    /\ pc = "direct"
    /\ socks = <<>>
    /\ list = <<>>
    /\ port_nodes = 0
    /\ open_ret = "none"
    /\ open_inj = NoFail
    /\ front = NoFront
    /\ front_ret = "none"
    /\ cpts = <<>>
    /\ ll_nodes = 0
    /\ bufs_live = 0
    /\ fronts_live = 0
    /\ create_inj = "none"
    /\ lastOp = "none"
    /\ prevOp = "none"

\* the state when the socket function fn returns r
DirectReturn(fn, r) ==
    /\ socks' = r.socks
    /\ sockcall' = [sockcall EXCEPT !.rets = Append(@, [fn |-> fn, s |-> r.s])]
    /\ UNCHANGED <<cfg, build, pc, list, port_nodes, open_ret, open_inj,
                   front, front_ret, cpts, ll_nodes, bufs_live, fronts_live,
                   create_inj, lastOp, prevOp>>

DirectUdp ==
    /\ pc = "direct"
    /\ Len(sockcall.rets) < MaxDirect
    /\ \E f \in UdpFailSteps :
         DirectReturn("udp", create_udp_sock(socks, DirectAddr("SOCK_DGRAM"),
                                             sockcall.v6only, f))

DirectTcp ==
    /\ pc = "direct"
    /\ Len(sockcall.rets) < MaxDirect
    /\ \E f \in TcpFailSteps :
         DirectReturn("tcp", create_tcp_accept_sock(socks,
                                 DirectAddr("SOCK_STREAM"), sockcall.v6only, f))

SockNext == DirectUdp \/ DirectTcp

SockSpec == SockInit /\ [][SockNext]_vars

(* ------------------------- properties: port list ----------------------- *)

FTypes == {"listen_type_udp", "listen_type_tcp", "listen_type_udpancil"}

AddrUniverse == IfNames \cup {"::0", "::1", "0.0.0.0", "127.0.0.1"}

StypeOf(ft) == IF ft = "listen_type_tcp" THEN "SOCK_STREAM" ELSE "SOCK_DGRAM"

FamilyOf(a) == IF str_is_ip6(a) THEN "AF_INET6" ELSE "AF_INET"

\* listening_ports_open has just returned
OpenReturned == pc = "opened"

\* no step of listening_ports_open was failed
OpenAllSucceeded == open_inj = NoFail

\* the descriptors of kind ft whose socket is an open socket of the matching
\* type and family, bound to address a and the configured port
DescAt(a, ft) ==
    {i \in DOMAIN list :
        /\ list[i].ftype = ft
        /\ socks[list[i].fd].addr = a
        /\ socks[list[i].fd].port = cfg.port
        /\ socks[list[i].fd].stype = StypeOf(ft)
        /\ socks[list[i].fd].family = FamilyOf(a)
        /\ socks[list[i].fd].open}

\* every descriptor is counted by some DescAt and no socket is listed twice
ListWellFormed ==
    /\ \A i \in DOMAIN list :
          \E a \in AddrUniverse, ft \in FTypes : i \in DescAt(a, ft)
    /\ \A i, j \in DOMAIN list : i # j => list[i].fd # list[j].fd

\* transport ft is requested by the configuration
Requested(ft) ==
    \/ ft = "listen_type_udp" /\ cfg.do_udp
    \/ ft = "listen_type_tcp" /\ cfg.do_tcp /\ cfg.incoming_num_tcp # 0

\* the list holds, for every address and kind, as many descriptors as the
\* interface list names the address, when the transport is requested
OnePerIfTransport ==
    /\ ListWellFormed
    /\ \A a \in AddrUniverse, ft \in FTypes :
          Cardinality(DescAt(a, ft)) =
             IF Requested(ft)
             THEN Cardinality({i \in DOMAIN cfg.ifs : cfg.ifs[i] = a})
             ELSE 0

ExplicitBothFamilies ==
    /\ OpenReturned
    /\ OpenAllSucceeded
    /\ Len(cfg.ifs) >= 1
    /\ eff_ip4(cfg) /\ eff_ip6(cfg)

\* C1: when listening_ports_open returns failure, no socket opened during the
\* call is still open and no list node allocated during the call is still
\* allocated.
C1_NoLeakOnFailure ==
    (OpenReturned /\ open_ret = "fail")
        => /\ \A s \in DOMAIN socks : ~socks[s].open
           /\ port_nodes = 0

\* C2 (as stated): with at least one explicit interface and both families
\* enabled, when every socket operation succeeds the list holds exactly one
\* descriptor per (interface, requested transport) pair.
C2_Orig_OnePerPair == ExplicitBothFamilies => OnePerIfTransport

\* C2 (amended): the same, for configurations in which automatic mode is not
\* in effect (the automatic flag is off or UDP is off).
C2_OnePerPairNoAuto ==
    (ExplicitBothFamilies /\ ~(cfg.if_automatic /\ cfg.do_udp))
        => OnePerIfTransport

C2_Witness ==
    /\ ExplicitBothFamilies
    /\ ~cfg.if_automatic
    /\ Len(cfg.ifs) = 2
    /\ cfg.ifs[1] # cfg.ifs[2]
    /\ open_ret = "ok"
    /\ Len(list) = 4

AutoBothFamilies ==
    /\ OpenReturned
    /\ OpenAllSucceeded
    /\ cfg.if_automatic /\ cfg.do_udp
    /\ eff_ip4(cfg) /\ eff_ip6(cfg)

\* the ancillary-capture descriptors: kind udpancil on a socket with
\* receive-packet-info enabled
AncilAt(a) ==
    {i \in DescAt(a, "listen_type_udpancil") : socks[list[i].fd].pktinfo}

Wildcards == {"::0", "0.0.0.0"}

\* the TCP part of C3: with TCP enabled (and a non-zero depth) one TCP
\* descriptor per family, on the wildcard; without, none
AutoTcpPerFamily ==
    \A a \in AddrUniverse :
        Cardinality(DescAt(a, "listen_type_tcp")) =
            IF a \in Wildcards /\ Requested("listen_type_tcp") THEN 1 ELSE 0

C4_NoFamilyNoPorts ==
    (OpenReturned /\ ~cfg.do_ip4 /\ ~cfg.do_ip6)
        => /\ open_ret = "guard"
           /\ list = <<>>
           /\ socks = <<>>
           /\ port_nodes = 0

C4_Witness ==
    /\ OpenReturned
    /\ ~cfg.do_ip4 /\ ~cfg.do_ip6
    /\ cfg.do_udp /\ cfg.do_tcp /\ cfg.incoming_num_tcp # 0
    /\ cfg.if_automatic
    /\ cfg.ifs # <<>>

\* C5: with a TCP accept-queue depth of 0, no TCP socket is ever created and
\* no TCP-accept descriptor is in the list, whatever the enable-TCP flag.
C5_DepthZeroNoTcp ==
    cfg.incoming_num_tcp = 0
        => /\ \A s \in DOMAIN socks : socks[s].stype # "SOCK_STREAM"
           /\ \A i \in DOMAIN list : list[i].ftype # "listen_type_tcp"
           /\ \A c \in DOMAIN cpts : cpts[c].kind # "tcp_accept"

C5_Witness ==
    /\ OpenReturned
    /\ cfg.incoming_num_tcp = 0
    /\ cfg.do_tcp
    /\ open_ret = "ok"
    /\ list # <<>>

Loopback(f) == IF f = "AF_INET6" THEN "::1" ELSE "127.0.0.1"

FamilyEnabled(f) == IF f = "AF_INET6" THEN eff_ip6(cfg) ELSE eff_ip4(cfg)

DefaultNoAuto ==
    /\ OpenAllSucceeded
    /\ cfg.ifs = <<>>
    /\ ~cfg.if_automatic

Scenario ==
    /\ DefaultNoAuto
    /\ cfg.do_ip4 /\ ~cfg.do_ip6 /\ cfg.do_udp /\ cfg.do_tcp
    /\ cfg.incoming_num_tcp = 5

\* C6: with no explicit interfaces and automatic mode off, when every socket
\* operation succeeds the list holds, for each enabled family, one plain UDP
\* descriptor (if UDP is enabled) and one TCP descriptor (if TCP is enabled
\* with non-zero depth) on that family's loopback address and the configured
\* port, and nothing else; the scenario {ip4, udp, tcp, depth 5} gives two
\* descriptors on 127.0.0.1 and listen_create over them, when nothing fails,
\* returns an aggregate with two comm points.
C6_LoopbackDefaults ==
    /\ (OpenReturned /\ DefaultNoAuto) =>
          /\ ListWellFormed
          /\ \A a \in AddrUniverse, ft \in FTypes :
                Cardinality(DescAt(a, ft)) =
                   IF /\ Requested(ft)
                      /\ \E f \in {"AF_INET", "AF_INET6"} :
                            FamilyEnabled(f) /\ a = Loopback(f)
                   THEN 1 ELSE 0
    /\ (OpenReturned /\ Scenario) =>
          /\ Len(list) = 2
          /\ Cardinality(DescAt("127.0.0.1", "listen_type_udp")) = 1
          /\ Cardinality(DescAt("127.0.0.1", "listen_type_tcp")) = 1
    /\ (pc = "created" /\ Scenario /\ create_inj = "none") =>
          /\ front_ret = "front"
          /\ Len(front.cps) = 2

C6_Witness ==
    /\ pc = "created"
    /\ Scenario
    /\ create_inj = "none"
    /\ front_ret = "front"
    /\ Len(list) = 2

(* ------------------------- properties: aggregate ----------------------- *)

\* a step of listen_pushback or listen_resume
PauseResumeStep == pc = "created" /\ pc' = "created"

\* the comm points the aggregate owns, in collection order
Owned == {front.cps[i] : i \in DOMAIN front.cps}

Toggled(c) == cpts[c].type \in {"comm_udp", "comm_tcp_accept"}

\* C7: listen_pushback and listen_resume leave the owned comm points, their
\* order, the shared buffer and every socket (open and bound) as they were;
\* only the listening state of comm points differs.
C7_PauseResumeFrame ==
    [][PauseResumeStep =>
          /\ front'.cps = front.cps
          /\ front'.udp_buff = front.udp_buff
          /\ socks' = socks
          /\ list' = list
          /\ ll_nodes' = ll_nodes /\ bufs_live' = bufs_live
          /\ fronts_live' = fronts_live
          /\ DOMAIN cpts' = DOMAIN cpts
          /\ \A c \in DOMAIN cpts :
                [cpts'[c] EXCEPT !.listening = cpts[c].listening] = cpts[c]
          /\ \A c \in Owned :
                /\ socks'[cpts'[c].fd].open
                /\ socks'[cpts'[c].fd].addr # "none"]_vars

C7_Witness ==
    /\ pc = "created"
    /\ prevOp = "pushback" /\ lastOp = "resume"
    /\ Len(front.cps) >= 2
    /\ \A c \in Owned : cpts[c].listening /\ socks[cpts[c].fd].open

C8_LastCallDecides ==
    (pc = "created" /\ front_ret = "front" /\ lastOp # "none")
        => \A c \in Owned :
              Toggled(c) => (cpts[c].listening <=> lastOp = "resume")

C8_OthersKeep ==
    [][PauseResumeStep =>
          \A c \in Owned :
              ~Toggled(c) => cpts'[c].listening = cpts[c].listening]_vars

\* C8: after any sequence of listen_pushback and listen_resume calls, every
\* owned comm point of type UDP or TCP-accept is listening if the last call
\* was listen_resume and not listening if it was listen_pushback; comm
\* points of another type keep their listening state.
C8_PauseResumeState == []C8_LastCallDecides /\ C8_OthersKeep

C8_Witness ==
    /\ pc = "created"
    /\ prevOp = "pushback" /\ lastOp = "pushback"
    /\ \E c \in Owned : Toggled(c) /\ ~cpts[c].listening
    /\ \E c \in Owned : cpts[c].type = "comm_tcp_accept" /\ ~cpts[c].listening
    /\ \E c \in Owned : ~Toggled(c) /\ cpts[c].listening

\* C9: no socket is closed twice; every comm point carries the do-not-close
\* flag, so no socket is closed by the destruction of a comm point; after
\* listening_ports_free each descriptor's socket has been closed exactly
\* once, by listening_ports_free.
C9_NoDoubleClose ==
    /\ \A s \in DOMAIN socks :
          /\ socks[s].closes <= 1
          /\ socks[s].closedBy # "comm_point_delete"
    /\ \A c \in DOMAIN cpts : cpts[c].do_not_close /\ cpts[c].deleted <= 1
    /\ pc = "freed" =>
          \A s \in DOMAIN socks :
              socks[s].listed =>
                  /\ socks[s].closes = 1
                  /\ socks[s].closedBy = "listening_ports_free"

C9_Witness ==
    /\ pc = "freed"
    /\ create_inj = "insert"
    /\ Len(cpts) >= 2
    /\ \A c \in DOMAIN cpts :
          cpts[c].deleted = 1 /\ socks[cpts[c].fd].closes = 1

\* C10: an aggregate returned by listen_create has a non-empty comm-point
\* collection, through every pause and resume until listen_delete;
\* listen_create on an empty port list returns failure and leaves no
\* aggregate and no shared buffer allocated.
C10_NonEmptyAggregate ==
    /\ (pc = "created" /\ front_ret = "front") => front.cps # <<>>
    /\ (pc = "created" /\ list = <<>>) =>
          /\ front_ret = "NULL"
          /\ fronts_live = 0 /\ bufs_live = 0 /\ ll_nodes = 0
          /\ front = NoFront

C10_Witness ==
    /\ pc = "created"
    /\ front_ret = "front"
    /\ lastOp = "pushback"
    /\ front.cps # <<>>

C10_WitnessEmpty ==
    /\ pc = "created"
    /\ list = <<>>
    /\ open_ret = "guard"
    /\ create_inj = "none"
    /\ front_ret = "NULL"
(* --------------------- properties: failure of listen_create ------------ *)

\* listen_create has just returned after a failed wrap or a failed link
CreateFailedPartway == pc = "created" /\ create_inj \in {"cp", "insert"}

\* C11: when wrapping a socket or linking a comm point fails at some
\* descriptor, listen_create returns failure and every comm point it made
\* has been destroyed exactly once, every link node, the shared buffer and
\* the aggregate have been freed.
C11_CreateFailureUnwinds ==
    CreateFailedPartway =>
        /\ front_ret = "NULL"
        /\ \A c \in DOMAIN cpts : cpts[c].deleted = 1
        /\ ll_nodes = 0 /\ bufs_live = 0 /\ fronts_live = 0
        /\ front = NoFront

C11_Witness ==
    /\ CreateFailedPartway
    /\ create_inj = "insert"
    /\ Len(cpts) = 3
    /\ Len(list) = 4
\* the descriptors listen_create made no comm point for
Unconsumed ==
    {i \in DOMAIN list : \A c \in DOMAIN cpts : cpts[c].fd # list[i].fd}

\* C12 (as stated): when listen_create fails partway and returns, the
\* sockets of the descriptors it had not consumed are closed and the
\* descriptors freed.
C12_Orig_UnconsumedReleased ==
    CreateFailedPartway =>
        /\ \A i \in Unconsumed : ~socks[list[i].fd].open
        /\ port_nodes <= Len(list) - Cardinality(Unconsumed)

\* C12 (amended): listen_create leaves the port list alone when it fails
\* partway: at its return every descriptor, consumed or not, is still
\* allocated and its socket still open; listening_ports_free, called
\* afterwards, closes each of these sockets once and frees every descriptor.
C12_ListReleasedByFree ==
    /\ CreateFailedPartway =>
          /\ \A i \in DOMAIN list :
                socks[list[i].fd].open /\ socks[list[i].fd].closes = 0
          /\ port_nodes = Len(list)
    /\ (pc = "freed" /\ create_inj \in {"cp", "insert"}) =>
          /\ list = <<>>
          /\ port_nodes = 0
          /\ \A s \in DOMAIN socks :
                socks[s].listed => ~socks[s].open /\ socks[s].closes = 1

C12_Witness ==
    /\ CreateFailedPartway
    /\ Len(list) = 4
    /\ Len(cpts) = 1
    /\ Cardinality(Unconsumed) = 3
    /\ \A i \in Unconsumed : socks[list[i].fd].open
(* --------------------- properties: success of listen_create ------------ *)

KindOf(ft) ==
    IF ft = "listen_type_udp" THEN "udp"
    ELSE IF ft = "listen_type_tcp" THEN "tcp_accept"
    ELSE "udp_ancil"

\* the comm point linked for descriptor i: listen_cp_insert links in front,
\* so the collection is the port list reversed
CpOf(i) == cpts[front.cps[Len(list) + 1 - i]]

\* C13: when listen_create succeeds its collection holds exactly one comm
\* point per descriptor and no others; each wraps the descriptor's socket
\* with the kind of the descriptor's transport (TCP-accept with the given
\* accept limit), has do_not_close set, and every UDP and UDP-ancillary comm
\* point uses the aggregate's one shared buffer.
C13_OneCommPointPerPort ==
    (pc = "created" /\ front_ret = "front") =>
        /\ Len(front.cps) = Len(list)
        /\ Len(cpts) = Len(list)
        /\ \A i, j \in DOMAIN front.cps : i # j => front.cps[i] # front.cps[j]
        /\ front.udp_buff # 0 /\ bufs_live = 1
        /\ \A i \in DOMAIN list :
              /\ CpOf(i).fd = list[i].fd
              /\ CpOf(i).kind = KindOf(list[i].ftype)
              /\ CpOf(i).do_not_close
              /\ CpOf(i).deleted = 0
              /\ CpOf(i).kind = "tcp_accept" =>
                    CpOf(i).max_tcp = cfg.incoming_num_tcp
              /\ CpOf(i).kind \in {"udp", "udp_ancil"} =>
                    CpOf(i).buffer = front.udp_buff

C13_Witness ==
    /\ pc = "created" /\ front_ret = "front"
    /\ Len(list) = 4
    /\ \E i \in DOMAIN list : CpOf(i).kind = "udp_ancil"
    /\ \E i \in DOMAIN list : CpOf(i).kind = "tcp_accept" /\ CpOf(i).max_tcp = 5
(* ---------------- properties: return paths of listening_ports_open ----- *)

SomeFamily == eff_ip4(cfg) \/ eff_ip6(cfg)

\* the explicit interface list is walked and every entry is of a disabled
\* family, so that no ports_create_if call is made
AllIfsSkipped ==
    /\ SomeFamily
    /\ ~eff_auto(cfg)
    /\ cfg.ifs # <<>>
    /\ \A i \in DOMAIN cfg.ifs : ~FamilyEnabled(FamilyOf(cfg.ifs[i]))

\* listening_ports_open returned through a path that is not a failure path
ReturnedNoFailure == OpenReturned /\ open_ret \in {"guard", "ok"}

\* C14 (as stated): a non-failure return gives the empty list only when
\* neither family is enabled; with a family enabled a non-failure return
\* holds at least one descriptor.
C14_Orig_EmptyOnlyByGuard ==
    (ReturnedNoFailure /\ SomeFamily) => list # <<>>

\* C14 (amended): a non-failure return gives the empty list only when
\* neither family is enabled (the guard of line 483) or when the explicit
\* interface list is walked and every configured interface is of a disabled
\* family (the final return); in every other configuration a non-failure
\* return holds at least one descriptor.
C14_EmptyByGuardOrSkips ==
    ReturnedNoFailure =>
        /\ open_ret = "guard" <=> ~SomeFamily
        /\ list = <<>> <=> (~SomeFamily \/ AllIfsSkipped)

C14_Witness ==
    /\ ReturnedNoFailure
    /\ AllIfsSkipped
    /\ Len(cfg.ifs) = 2
    /\ cfg.do_udp
    /\ open_ret = "ok"
    /\ list = <<>>

NoTransport == ~cfg.do_udp /\ ~(cfg.do_tcp /\ cfg.incoming_num_tcp # 0)

\* C15 (as stated): with a family enabled and neither UDP nor TCP requested,
\* ports_create_if reports success without creating anything, so
\* listening_ports_open does not take its failure path.
C15_Orig_NoTransportSucceeds ==
    (OpenReturned /\ NoTransport /\ SomeFamily)
        => /\ open_ret # "fail"
           /\ socks = <<>> /\ list = <<>>

\* C15 (amended): called with neither UDP nor TCP requested, ports_create_if
\* reports failure, creates no socket and leaves the list unchanged; a
\* configuration with a family enabled but no transport makes
\* listening_ports_open take its failure path at its first ports_create_if
\* call (it makes none only when every explicit interface is of a disabled
\* family), with no socket created and an empty list.
C15_NoTransportFails ==
    (OpenReturned /\ NoTransport) =>
        /\ socks = <<>> /\ list = <<>> /\ port_nodes = 0
        /\ open_inj = NoFail
        /\ open_ret = "fail" <=> (SomeFamily /\ ~AllIfsSkipped)

C15_Witness ==
    /\ OpenReturned /\ NoTransport
    /\ eff_ip4(cfg) /\ eff_ip6(cfg)
    /\ cfg.do_tcp
    /\ cfg.ifs # <<>>
    /\ open_ret = "fail"
(* ------------------------ properties: automatic mode ------------------- *)

EntryMem == [socks |-> <<>>, list |-> <<>>, nodes |-> 0, ncalls |-> 0,
             hit |-> FALSE]

\* the current state is what listening_ports_open returns as r
SameAsReturn(r) ==
    /\ r.ret = open_ret
    /\ r.st.socks = socks
    /\ r.st.list = list
    /\ r.st.nodes = port_nodes

AutoOneFamily ==
    /\ OpenReturned
    /\ cfg.if_automatic /\ cfg.do_udp
    /\ eff_ip4(cfg) # eff_ip6(cfg)

\* C16: with the automatic flag and UDP set but exactly one family enabled,
\* listening_ports_open makes no ancillary-capture descriptor and no
\* wildcard-bound socket, and its result (return path, sockets, descriptors)
\* is the result for the same configuration, and the same failed step, with
\* the automatic flag off; in particular it fails only if a step fails.
C16_AutoDegradesToPlain ==
    AutoOneFamily =>
        /\ \A i \in DOMAIN list : list[i].ftype # "listen_type_udpancil"
        /\ \A s \in DOMAIN socks :
              socks[s].addr \notin Wildcards /\ ~socks[s].pktinfo
        /\ SameAsReturn(open_ports([cfg EXCEPT !.if_automatic = FALSE],
                                   EntryMem, open_inj))
        /\ open_inj = NoFail => open_ret = "ok"

C16_Witness ==
    /\ AutoOneFamily
    /\ eff_ip6(cfg)
    /\ cfg.ifs = <<"2001:db8::1", "192.0.2.1">>
    /\ cfg.do_tcp /\ cfg.incoming_num_tcp # 0
    /\ open_ret = "ok"
    /\ Len(list) = 2
\* automatic mode is in effect: the flag, UDP and both families
AutoInEffect ==
    /\ cfg.if_automatic /\ cfg.do_udp
    /\ eff_ip4(cfg) /\ eff_ip6(cfg)

\* C17: when automatic mode is in effect the interface list is ignored:
\* every socket listening_ports_open binds is bound to the IPv6 or IPv4
\* wildcard (a socket whose creation failed before bind is bound to
\* nothing), every socket is bound there when no step fails, IPv6 sockets
\* and descriptors are made before IPv4 ones, and no socket is bound to a
\* configured interface address.
C17_AutoIgnoresInterfaces ==
    AutoInEffect =>
        /\ \A s \in DOMAIN socks :
              /\ socks[s].addr \in Wildcards \cup {"none"}
              /\ socks[s].addr \notin IfNames
              /\ socks[s].addr # "none" => socks[s].family = FamilyOf(socks[s].addr)
              /\ (OpenReturned /\ OpenAllSucceeded) => socks[s].addr \in Wildcards
        /\ \A s, t \in DOMAIN socks :
              (socks[s].family = "AF_INET6" /\ socks[t].family = "AF_INET") => s < t
        /\ \A i, j \in DOMAIN list :
              (socks[list[i].fd].family = "AF_INET6"
                  /\ socks[list[j].fd].family = "AF_INET") => j < i

C17_Witness ==
    /\ OpenReturned /\ OpenAllSucceeded
    /\ AutoInEffect
    /\ Len(cfg.ifs) = 2
    /\ cfg.do_tcp /\ cfg.incoming_num_tcp # 0
    /\ Len(socks) = 4
    /\ socks[1].addr = "::0" /\ socks[4].addr = "0.0.0.0"
(* -------------------- properties: sockets of the port list ------------- *)

OpenSocks == {s \in DOMAIN socks : socks[s].open}

ListedSocks == {list[i].fd : i \in DOMAIN list}

\* C20: whenever listening_ports_open returns a non-empty list, the sockets
\* opened during the call and still open are exactly the sockets of the
\* list's descriptors, each held by one descriptor, and an ancillary-capture
\* descriptor is listed only with receive-packet-info enabled on its socket.
C20_ListOwnsOpenSockets ==
    (OpenReturned /\ list # <<>>) =>
        /\ OpenSocks = ListedSocks
        /\ DOMAIN socks = ListedSocks
        /\ \A i, j \in DOMAIN list : i # j => list[i].fd # list[j].fd
        /\ port_nodes = Len(list)
        /\ \A i \in DOMAIN list :
              list[i].ftype = "listen_type_udpancil" => socks[list[i].fd].pktinfo
        /\ open_ret = "ok" /\ open_inj = NoFail

C20_Witness ==
    /\ OpenReturned
    /\ Len(list) = 4
    /\ \E i \in DOMAIN list : list[i].ftype = "listen_type_udpancil"
    /\ Cardinality(OpenSocks) = 4
(* ----------------------- properties: socket functions ------------------ *)

\* the direct calls that returned a valid handle
ValidRets == {i \in DOMAIN sockcall.rets : sockcall.rets[i].s # -1}

RetSock(i) == socks[sockcall.rets[i].s]

\* what create_udp_sock does to the v6-only option of an IPv6 socket
UdpV6State(mode) ==
    IF mode = 0 THEN "default" ELSE IF mode = 1 THEN "on" ELSE "off"

\* C18 (as stated): for an IPv6 address and each mode in {0, 1, 2},
\* create_tcp_accept_sock leaves the v6-only option as create_udp_sock does:
\* untouched for 0, enabled for 1, disabled for 2.
C18_Orig_TcpV6LikeUdp ==
    \A i \in ValidRets :
        RetSock(i).family = "AF_INET6" =>
            RetSock(i).v6only = UdpV6State(sockcall.v6only)

\* C18 (amended): for an IPv6 address, both functions leave the v6-only
\* option untouched for mode 0 and enable it for mode 1; for mode 2
\* create_udp_sock disables it and create_tcp_accept_sock enables it (it
\* enables the option for every non-zero mode). An IPv4 socket's option is
\* never touched.
C18_TcpV6NonZeroEnables ==
    \A i \in ValidRets :
        /\ (RetSock(i).family = "AF_INET6" /\ sockcall.rets[i].fn = "udp")
              => RetSock(i).v6only = UdpV6State(sockcall.v6only)
        /\ (RetSock(i).family = "AF_INET6" /\ sockcall.rets[i].fn = "tcp")
              => RetSock(i).v6only =
                    (IF sockcall.v6only = 0 THEN "default" ELSE "on")
        /\ RetSock(i).family = "AF_INET" => RetSock(i).v6only = "default"

C18_Witness ==
    /\ sockcall.v6only = 2
    /\ sockcall.family = "AF_INET6"
    /\ \E i \in ValidRets :
          sockcall.rets[i].fn = "udp" /\ RetSock(i).v6only = "off"
    /\ \E i \in ValidRets :
          sockcall.rets[i].fn = "tcp" /\ RetSock(i).v6only = "on"

\* a socket bound to a resolved address of its family and the wanted port,
\* and non-blocking
BoundNonBlocking(s) ==
    /\ socks[s].addr # "none"
    /\ socks[s].family = FamilyOf(socks[s].addr)
    /\ socks[s].port = cfg.port
    /\ socks[s].nonblock

\* C19: every socket create_udp_sock or create_tcp_accept_sock returns as a
\* valid handle is bound to the resolved address and non-blocking, a TCP one
\* is listening with backlog 5, and listening is entered only on a bound,
\* non-blocking socket; hence every descriptor of a port list holds a bound,
\* non-blocking socket.
C19_ReturnedSocketsBound ==
    /\ \A s \in DOMAIN socks :
          /\ socks[s].returned =>
                /\ BoundNonBlocking(s)
                /\ socks[s].stype = "SOCK_STREAM" => socks[s].backlog = TCP_BACKLOG
          /\ socks[s].backlog # 0 =>
                BoundNonBlocking(s) /\ socks[s].backlog = TCP_BACKLOG
          /\ socks[s].listed => socks[s].returned
    /\ \A i \in ValidRets : RetSock(i).returned
    /\ \A i \in DOMAIN list :
          /\ list[i].fd \in DOMAIN socks
          /\ socks[list[i].fd].returned
          /\ BoundNonBlocking(list[i].fd)
    /\ \A c \in DOMAIN cpts : BoundNonBlocking(cpts[c].fd)

C19_Witness ==
    /\ OpenReturned
    /\ open_inj.step = "malloc" /\ open_inj.which = "tcp" /\ open_inj.call = 2
    /\ Len(socks) = 4
    /\ \A s \in DOMAIN socks : socks[s].returned /\ BoundNonBlocking(s)
    /\ \E s \in DOMAIN socks : socks[s].backlog = TCP_BACKLOG
====
